---- MODULE Spec2Model ----
(***************************************************************************)
(* The e-commerce analytics dashboard.                                     *)
(*                                                                         *)
(* RFM customer segmentation (src/rfm_analysis.py).  A transaction         *)
(* dataframe `df` is analysed by rfm_segmentation_analysis: it fixes a     *)
(* reference date, aggregates the log per customer (groupby/agg), scores   *)
(* recency, frequency and monetary by quartile (pandas.qcut) and labels    *)
(* each customer with a segment.                                           *)
(*                                                                         *)
(* Dates are day numbers and amounts are whole rupees.  The edges of a     *)
(* q-quantile cut are kept multiplied by q, so that the linear             *)
(* interpolation pandas uses at 0, 1/q, ..., 1 stays in the integers.      *)
(* Every record carries a customer id, a transaction id, a date and an     *)
(* amount (the cleaned dataframe of the docstring): no missing values.     *)
(*                                                                         *)
(* DatabaseManager (src/db_analytics.py).  Every call of execute_query,    *)
(* execute_update or execute_stored_procedure takes a connection from a    *)
(* pool of pool_size connections, runs one statement and closes the        *)
(* connection if it is still connected.  A call is one step; the driver    *)
(* operations it performed are kept as a trace.                            *)
(*                                                                         *)
(* The dashboard script (src/dashboard.py).  Every run of the script       *)
(* loads the transaction file into session state if no dataframe is kept   *)
(* there, draws the sidebar and renders the selected analysis section on   *)
(* the dataframe of session state.                                         *)
(***************************************************************************)
EXTENDS Integers, Sequences, FiniteSets, TLC

VARIABLES
    df,              \* the caller's dataframe: its rows and the dtype of order_date
    result,          \* "none" before any call, then "returned" or "ValueError"
    reference_date,  \* the reference_date of the last call (0 before any call)
    rfm,             \* the profile table of the last call if it returned, else << >>
    previous,        \* result, reference_date and rfm as they were before the last call
    pool_free,       \* the connections queued in connection_pool
    call,            \* the last DatabaseManager call: operation, driver trace, outcome
    connector,       \* the DatabaseManager and AnalyticsQueries objects handed to callers
    session_state,   \* st.session_state of the dashboard session: its df entry
    loaded_columns,  \* the columns the dataframe had when load_data returned it
    load_calls,      \* the calls of load_data made in the session
    run,             \* the last run of the dashboard script
    app_state,       \* st.session_state of the application script app_main
    widget_state,    \* the values the session holds for the sidebar radios
    app_run,         \* the last run of main()
    purchases,       \* per customer of the log: its rows and its rows with a category
    journey,         \* what customer_journey_analysis computed
    loyalty          \* what the retention tab of the customer dashboard computed

rfmvars == <<df, result, reference_date, rfm, previous>>
dbvars == <<pool_free, call, connector>>
dashvars == <<session_state, loaded_columns, load_calls, run>>
appvars == <<app_state, widget_state, app_run>>
countvars == <<purchases, journey, loyalty>>
vars == <<df, result, reference_date, rfm, previous, pool_free, call, connector,
          session_state, loaded_columns, load_calls, run,
          app_state, widget_state, app_run, purchases, journey, loyalty>>

\* Bounds of the explored inputs
MaxBuyers == 3
MaxPurchases == 12
MaxCust == 4
MaxDay == 3
MaxAmt == 3
MaxLen == 4
MaxSingleAmt == 4
MaxLoadCalls == 3
MaxPopulation == 6
MaxFrequency == 3

----------------------------------------------------------------------------
(* The components at rest *)

\* DatabaseManager.__init__(config, pool_size=5)
PoolSize == 5

\* No DatabaseManager call has been made.
NoCall == [op |-> "none", connection |-> "None", failure |-> "none", trace |-> << >>,
           ret |-> "none", raised |-> "none"]

\* DatabaseManager(config) and AnalyticsQueries(db_manager) have been
\* constructed; the manager holds its pool.
Constructed ==
    [db_manager |-> "DatabaseManager", connection_pool |-> "MySQLConnectionPool",
     analytics |-> "AnalyticsQueries", imported |-> TRUE, creation |-> "ok",
     logged |-> FALSE, raised |-> "none"]

\* The pool as MySQLConnectionPool creates it: pool_size connections queued.
NoDatabase ==
    /\ pool_free = PoolSize
    /\ call = NoCall
    /\ connector = Constructed

\* The df entry of a session state that has no 'df' key.
NoDf == [id |-> 0, source |-> "none", columns |-> {}, order_date_dtype |-> "none"]

\* The script has not run in the session.
NoRun == [tab |-> "none", parquet |-> "none", csv |-> "none", load_data |-> "none",
          outcome |-> "none", analyses |-> << >>, df_id |-> 0]

\* A new dashboard session.
NoDashboard ==
    /\ session_state = [df |-> NoDf]
    /\ loaded_columns = {}
    /\ load_calls = 0
    /\ run = NoRun

\* No run of main() was made: the session state has no key and no widget.
NoAppRun == [event |-> "none", first |-> FALSE, current_index |-> 0,
             nav_option |-> "none", current_page |-> "none",
             rendered |-> << >>, tile |-> "none", question |-> "none",
             analyses |-> << >>, error |-> FALSE, info |-> FALSE,
             ended |-> "none"]

\* A new session of the application.
NoApp ==
    /\ app_state = [current_page |-> "absent", selected_eda_question |-> "absent"]
    /\ widget_state = [i \in 0..4 |-> "absent"]
    /\ app_run = NoAppRun

\* Neither purchase-count classification was computed.
NoJourney == [called |-> FALSE, total_purchases |-> << >>, lifecycle |-> << >>,
              lifecycle_counts |-> << >>]

NoLoyalty == [shown |-> FALSE, customers |-> 0, Count |-> << >>]

\* No log was given to the purchase-count classifications.
NoCounts ==
    /\ purchases = << >>
    /\ journey = NoJourney
    /\ loyalty = NoLoyalty

----------------------------------------------------------------------------
(* Input dataframes *)

NumKeys == MaxCust * MaxDay * MaxAmt

\* The k-th transaction record of the enumeration: amount, then date, then
\* customer; so the rows of a log are sorted neither by customer nor by date.
RecOf(k) ==
    [customer_id      |-> ((k - 1) % MaxCust) + 1,
     order_date       |-> (((k - 1) \div MaxCust) % MaxDay) + 1,
     final_amount_inr |-> ((k - 1) \div (MaxCust * MaxDay)) + 1]

\* The order_date column holds text, or timestamps when the loader parsed it.
DateDtypes == {"object", "datetime64[ns]"}

RECURSIVE LoadRows(_, _, _, _)
\* df is `rows` followed by n more records, with keys from lo on in
\* non-decreasing order (one row order for every multiset of records).
LoadRows(n, lo, rows, dt) ==
    IF n = 0 THEN df = [rows |-> rows, order_date_dtype |-> dt]
    ELSE \E k \in lo..NumKeys : LoadRows(n - 1, k, Append(rows, RecOf(k)), dt)

----------------------------------------------------------------------------
(* Helpers over columns *)

Range(s) == {s[i] : i \in 1..Len(s)}

RECURSIVE Tuple(_, _)
\* The first n elements of s as an explicit tuple.
Tuple(s, n) == IF n = 0 THEN << >> ELSE Append(Tuple(s, n - 1), s[n])

SetMax(S) == CHOOSE m \in S : \A x \in S : x <= m

RECURSIVE SumSeq(_)
SumSeq(s) == IF s = << >> THEN 0 ELSE Head(s) + SumSeq(Tail(s))

\* The column f of a table.
Column(rows, f) == Tuple([i \in 1..Len(rows) |-> rows[i][f]], Len(rows))

\* The rows of a log that carry customer c, in log order.
RowsOf(rows, c) == SelectSeq(rows, LAMBDA t : t.customer_id = c)

----------------------------------------------------------------------------
(* pandas operations used by rfm_segmentation_analysis *)

\* Series.max()
SeriesMax(s) == SetMax(Range(s))

\* pd.to_datetime on a column: the values denote the same days, the dtype
\* becomes datetime64[ns].
ToDatetimeDtype(dt) == "datetime64[ns]"

\* Series.quantile(k/q) of the sorted values, times q (linear interpolation):
\* the virtual index (n-1)*k/q lies r/q of the way from position lo to hi.
Interpolate(sorted, k, q) ==
    LET pos == (Len(sorted) - 1) * k
        lo  == (pos \div q) + 1
        r   == pos % q
        hi  == IF r = 0 THEN lo ELSE lo + 1
    IN  q * sorted[lo] + r * (sorted[hi] - sorted[lo])

SortedEdges(sorted, q) ==
    Tuple([k \in 1..(q + 1) |-> Interpolate(sorted, k - 1, q)], q + 1)

\* The q+1 bin edges of qcut: the quantiles at 0, 1/q, ..., 1 (times q).
QuantileEdges(s, q) == SortedEdges(SortSeq(s, LAMBDA a, b : a < b), q)

RECURSIVE Unique(_)
\* algos.unique: the values in order of first appearance.
Unique(e) ==
    IF e = << >> THEN << >>
    ELSE LET init == Unique(SubSeq(e, 1, Len(e) - 1))
             last == e[Len(e)]
         IN  IF last \in Range(init) THEN init ELSE Append(init, last)

\* duplicates="drop": repeated edges are dropped (unless there are only two).
DropDuplicates(edges, uniq) ==
    IF Len(uniq) < Len(edges) /\ Len(edges) # 2 THEN uniq ELSE edges

\* Index.searchsorted(v, side="left"): how many edges lie strictly below v.
SearchSortedLeft(bins, v) == Cardinality({j \in 1..Len(bins) : bins[j] < v})

\* _bins_to_cuts: each value gets the label of its bin (bins[i-1], bins[i]],
\* the lowest edge included in the first bin; the labels must be one fewer
\* than the edges, or ValueError is raised.  The lowest and the highest edge
\* are the minimum and the maximum of s, so no value lies outside the bins.
CutValues(s, q, bins, labels) ==
    LET id(v) == IF q * v = bins[1] THEN 1 ELSE SearchSortedLeft(bins, q * v)
    IN  IF Len(labels) # Len(bins) - 1
        THEN [raised |-> TRUE, values |-> << >>]
        ELSE [raised |-> FALSE,
              values |-> Tuple([i \in 1..Len(s) |-> labels[id(s[i])]], Len(s))]

BinEdges(edges) == DropDuplicates(edges, Unique(edges))

\* pandas.qcut(s, q, labels=labels, duplicates="drop")
Qcut(s, q, labels) == CutValues(s, q, BinEdges(QuantileEdges(s, q)), labels)

\* Series.rank(method="first"), ties ranked in reverse order of appearance.
RankLast(s) ==
    [i \in 1..Len(s) |->
        1 + Cardinality({j \in 1..Len(s) : s[j] < s[i]})
          + Cardinality({j \in (i + 1)..Len(s) : s[j] = s[i]})]

\* Series.rank(method="first"): ascending rank, equal values ranked in the
\* order in which they appear in the column.
RankFirst(s) ==
    [i \in 1..Len(s) |->
        1 + Cardinality({j \in 1..Len(s) : s[j] < s[i]})
          + Cardinality({j \in 1..(i - 1) : s[j] = s[i]})]

RECURSIVE SortedKeys(_)
\* The group keys of groupby, ascending.
SortedKeys(S) ==
    IF S = {} THEN << >>
    ELSE LET m == SetMax(S) IN Append(SortedKeys(S \ {m}), m)

\* One profile row per key, from the rows of that customer.
AggRows(rows, keys, refdate) ==
    Tuple([i \in 1..Len(keys) |->
             LET grp == RowsOf(rows, keys[i])
             IN  [customer_id |-> keys[i],
                  recency     |-> refdate - SeriesMax(Column(grp, "order_date")),
                  frequency   |-> Len(grp),
                  monetary    |-> SumSeq(Column(grp, "final_amount_inr"))]],
          Len(keys))

\* A grouping by row: one profile row per transaction.
GroupByRow(rows, refdate) == AggRows(rows, Column(rows, "customer_id"), refdate)

\* The aggregation with frequency = the number of distinct order dates
\* (nunique in place of count).
GroupByAggNunique(rows, refdate) ==
    LET agg == AggRows(rows, SortedKeys(Range(Column(rows, "customer_id"))), refdate)
    IN  Tuple([i \in 1..Len(agg) |->
                 [agg[i] EXCEPT !.frequency =
                    Cardinality(Range(Column(RowsOf(rows, agg[i].customer_id), "order_date")))]],
              Len(agg))

\* The aggregation with monetary = the largest amount (max in place of sum).
GroupByAggMax(rows, refdate) ==
    LET agg == AggRows(rows, SortedKeys(Range(Column(rows, "customer_id"))), refdate)
    IN  Tuple([i \in 1..Len(agg) |->
                 [agg[i] EXCEPT !.monetary =
                    SeriesMax(Column(RowsOf(rows, agg[i].customer_id), "final_amount_inr"))]],
              Len(agg))

\* df.groupby('customer_id').agg({...}).rename(...).reset_index(): one row per
\* customer id, in ascending id order, with recency (days from the customer's
\* latest order to the reference date), frequency (count) and monetary (sum).
GroupByAgg(rows, refdate) ==
    AggRows(rows, SortedKeys(Range(Column(rows, "customer_id"))), refdate)

----------------------------------------------------------------------------
(* rfm_segmentation_analysis *)

\* The thresholds compared with > in place of >=.
segment_customer_gt(score) ==
    IF score > 10 THEN "Champions"
    ELSE IF score > 8 THEN "Loyal Customers"
    ELSE IF score > 6 THEN "Potential Loyalists"
    ELSE IF score > 4 THEN "At Risk"
    ELSE "Lost"

segment_customer(score) ==
    IF score >= 10 THEN "Champions"
    ELSE IF score >= 8 THEN "Loyal Customers"
    ELSE IF score >= 6 THEN "Potential Loyalists"
    ELSE IF score >= 4 THEN "At Risk"
    ELSE "Lost"

\* The earliest order date + 1 day.
ReferenceDateMin(rows) == -SeriesMax([i \in 1..Len(rows) |-> -rows[i].order_date]) + 1

\* The reference date read from a clock that a finished call has advanced by
\* a day.
ReferenceDateClock(rows) ==
    SeriesMax(Column(rows, "order_date")) + 1 + (IF result = "none" THEN 0 ELSE 1)

\* The latest order date itself, without the added day.
ReferenceDateLatest(rows) == SeriesMax(Column(rows, "order_date"))

\* reference_date = df['order_date'].max() + pd.Timedelta(days=1)
ReferenceDate(rows) == SeriesMax(Column(rows, "order_date")) + 1

\* Recency labels in ascending order.
RScoreLabelsAscending == <<1, 2, 3, 4>>

RScoreLabels == <<4, 3, 2, 1>>
FScoreLabels == <<1, 2, 3, 4>>
MScoreLabels == <<1, 2, 3, 4>>

RScores(agg) == Qcut(Column(agg, "recency"), 4, RScoreLabels)

\* Frequency scored over its values, without the ranking.
FScoresUnranked(agg) == Qcut(Column(agg, "frequency"), 4, FScoreLabels)

FScores(agg) == Qcut(RankFirst(Column(agg, "frequency")), 4, FScoreLabels)

\* Monetary scored in quintiles 1..5.
MScoresQuintile(agg) == Qcut(Column(agg, "monetary"), 5, <<1, 2, 3, 4, 5>>)

\* Monetary scored over its rank(method="first").
MScoresRanked(agg) == Qcut(RankFirst(Column(agg, "monetary")), 4, MScoreLabels)

MScores(agg) == Qcut(Column(agg, "monetary"), 4, MScoreLabels)

\* The profile table with the three scores, their sum and the segment.
Scored(agg, r, f, m) ==
    [i \in 1..Len(agg) |->
        [customer_id |-> agg[i].customer_id,
         recency     |-> agg[i].recency,
         frequency   |-> agg[i].frequency,
         monetary    |-> agg[i].monetary,
         r_score     |-> r[i],
         f_score     |-> f[i],
         m_score     |-> m[i],
         rfm_score   |-> r[i] + f[i] + m[i],
         segment     |-> segment_customer(r[i] + f[i] + m[i])]]

\* The call ends in the ValueError of the first qcut that raises, or returns
\* the scored table.
Outcome(agg, r, f, m) ==
    IF r.raised \/ f.raised \/ m.raised
    THEN [result |-> "ValueError", rfm |-> << >>]
    ELSE [result |-> "returned", rfm |-> Scored(agg, r.values, f.values, m.values)]

Analyse(agg) == Outcome(agg, RScores(agg), FScores(agg), MScores(agg))

\* One call rfm_segmentation_analysis(df).  The order_date column of the
\* caller's dataframe is replaced by its timestamp conversion; then the call
\* returns the profile table or ends in a ValueError.
rfm_segmentation_analysis ==
    \E out \in {Analyse(GroupByAgg(df.rows, ReferenceDate(df.rows)))} :
        /\ df' = [df EXCEPT !.order_date_dtype = ToDatetimeDtype(@)]
        /\ reference_date' = ReferenceDate(df.rows)
        /\ result' = out.result
        /\ rfm' = out.rfm
        /\ previous' = [result |-> result, reference_date |-> reference_date, rfm |-> rfm]
        /\ UNCHANGED <<dbvars, dashvars, appvars, countvars>>

\* No call of rfm_segmentation_analysis has been made.
NotCalled ==
    /\ result = "none"
    /\ reference_date = 0
    /\ rfm = << >>
    /\ previous = [result |-> "none", reference_date |-> 0, rfm |-> << >>]

Init ==
    /\ \E n \in 1..MaxLen, dt \in DateDtypes : LoadRows(n, 1, << >>, dt)
    /\ NotCalled
    /\ NoDatabase
    /\ NoDashboard
    /\ NoApp
    /\ NoCounts

Next == rfm_segmentation_analysis

Spec == Init /\ [][Next]_vars

----------------------------------------------------------------------------
(* A population of four customers *)

\* The one record of customer c: its date d[c] and its amount a[c].
SingleRecord(c, d, a) ==
    [customer_id |-> c, order_date |-> d[c], final_amount_inr |-> a[c]]

\* A log of four customers with one purchase each, on any days and of any
\* amounts up to MaxSingleAmt.
InitFour ==
    /\ \E d \in [1..4 -> 1..MaxDay], a \in [1..4 -> 1..MaxSingleAmt], dt \in DateDtypes :
          df = [rows |-> <<SingleRecord(1, d, a), SingleRecord(2, d, a),
                           SingleRecord(3, d, a), SingleRecord(4, d, a)>>,
                order_date_dtype |-> dt]
    /\ NotCalled
    /\ NoDatabase
    /\ NoDashboard
    /\ NoApp
    /\ NoCounts

SpecFour == InitFour /\ [][Next]_vars

----------------------------------------------------------------------------
(* Populations of four and more customers with any purchase counts *)

RECURSIVE Purchases(_, _, _)
\* k purchases of customer c: on day c and of amount c when the customers
\* are spread over the days, all on day 1 and of amount 1 otherwise.
Purchases(c, k, spread) ==
    IF k = 0 THEN << >>
    ELSE Append(Purchases(c, k - 1, spread),
                [customer_id |-> c,
                 order_date |-> IF spread THEN c ELSE 1,
                 final_amount_inr |-> IF spread THEN c ELSE 1])

RECURSIVE PopulationLog(_, _, _)
\* The log of customers 1..n, customer c with count[c] purchases.
PopulationLog(n, count, spread) ==
    IF n = 0 THEN << >>
    ELSE PopulationLog(n - 1, count, spread) \o Purchases(n, count[n], spread)

\* A log of four to MaxPopulation customers with any purchase counts
\* up to MaxFrequency.
InitPopulation ==
    /\ \E n \in 4..MaxPopulation, spread \in BOOLEAN, dt \in DateDtypes :
          \E count \in [1..n -> 1..MaxFrequency] :
              df = [rows |-> PopulationLog(n, count, spread), order_date_dtype |-> dt]
    /\ NotCalled
    /\ NoDatabase
    /\ NoDashboard
    /\ NoApp
    /\ NoCounts

SpecPopulation == InitPopulation /\ [][Next]_vars

----------------------------------------------------------------------------
(* The log of three customers A, B and C *)

\* The assignments of the customer ids 1, 2, 3 to A, B and C.
ScenarioIds == {p \in [1..3 -> 1..3] : \A i, j \in 1..3 : p[i] = p[j] => i = j}

\* The days of B's four earlier purchases and their amounts.
ScenarioEarlierDays == {1, 100, 199}
ScenarioEarlierAmounts == {500, 1000}

\* With day 201 as the day of observation: A bought once, 100, on day 191;
\* B bought five times, 5000 in all, the last time on day 199; C bought once,
\* 50, on day 1.  B's earlier purchases are on the days d and of the amounts a.
ScenarioLog(p, d, a) ==
    <<[customer_id |-> p[1], order_date |-> 201 - 10, final_amount_inr |-> 100],
      [customer_id |-> p[2], order_date |-> d[1], final_amount_inr |-> a[1]],
      [customer_id |-> p[2], order_date |-> d[2], final_amount_inr |-> a[2]],
      [customer_id |-> p[3], order_date |-> 201 - 200, final_amount_inr |-> 50],
      [customer_id |-> p[2], order_date |-> d[3], final_amount_inr |-> a[3]],
      [customer_id |-> p[2], order_date |-> d[4], final_amount_inr |-> a[4]],
      [customer_id |-> p[2], order_date |-> 201 - 2,
       final_amount_inr |-> 5000 - (a[1] + a[2] + a[3] + a[4])]>>

InitScenario ==
    /\ \E p \in ScenarioIds, d \in [1..4 -> ScenarioEarlierDays],
          a \in [1..4 -> ScenarioEarlierAmounts], dt \in DateDtypes :
          df = [rows |-> ScenarioLog(p, d, a), order_date_dtype |-> dt]
    /\ NotCalled
    /\ NoDatabase
    /\ NoDashboard
    /\ NoApp
    /\ NoCounts

SpecScenario == InitScenario /\ [][Next]_vars

----------------------------------------------------------------------------
(* DatabaseManager *)

\* No dataframe is analysed.
NoAnalysis ==
    /\ df = [rows |-> << >>, order_date_dtype |-> "datetime64[ns]"]
    /\ NotCalled

\* The driver operation that raises mysql.connector.Error during a call
\* ("none": no operation raises).  pd.read_sql opens a cursor, executes the
\* query on it and fetches the rows.
QueryFailures == {"none", "cursor", "execute", "fetchall"}
UpdateFailures == {"none", "cursor", "execute", "commit"}
ProcedureFailures == {"none", "cursor", "callproc", "commit"}

\* connection_pool.get_connection(): PoolError when no connection is queued;
\* the InterfaceError of a failed reconnect of a stale connection, which is
\* queued again.  Both are mysql.connector.Error.
PoolGetConnection(free, reconnects) ==
    IF free > 0 /\ reconnects THEN "connection" ELSE "Error"

\* get_connection asking the pool a second time after an Error.
get_connection_retry(free, reconnects) ==
    IF PoolGetConnection(free, reconnects) = "Error"
    THEN [connection |-> IF PoolGetConnection(free, TRUE) = "Error" THEN "None"
                         ELSE "connection",
          trace |-> <<"pool.get_connection", "pool.get_connection">>]
    ELSE [connection |-> "connection", trace |-> <<"pool.get_connection">>]

\* get_connection(): the pool's connection, or None when the pool raises Error.
get_connection(free, reconnects) ==
    [connection |-> IF PoolGetConnection(free, reconnects) = "Error" THEN "None"
                    ELSE "connection",
     trace |-> <<"pool.get_connection">>]

\* How pd.read_sql(query, connection) ends.  An Error raised by con.cursor()
\* or by the fetch leaves read_sql as it is; pandas catches every exception
\* of cursor.execute and raises pandas.errors.DatabaseError from it, which is
\* an OSError and no mysql.connector.Error.
ReadSql(failure) ==
    IF failure = "none" THEN "DataFrame"
    ELSE IF failure = "execute" THEN "DatabaseError"
    ELSE "Error"

\* except Error: the clause catches mysql.connector.Error and its subclasses.
ExceptError(raised) == raised = "Error"

\* The operations of the try block that are reached: all of them, or those up
\* to the one that raises.
Reached(ops, failure) ==
    IF failure = "none" THEN ops
    ELSE SubSeq(ops, 1, CHOOSE i \in 1..Len(ops) : ops[i] = failure)

\* finally: if connection.is_connected(): connection.close()
Finally(connected) ==
    IF connected THEN <<"is_connected", "close">> ELSE <<"is_connected">>

\* What a call of `op` returns when it fails.
FailureValue(op) ==
    IF op = "execute_query" THEN "None"
    ELSE IF op = "execute_update" THEN "0"
    ELSE "False"

\* execute_query(query, params) with `free` connections queued.
ExecuteQuery(free, reconnects, failure, connected) ==
    LET got == get_connection(free, reconnects)
        out == ReadSql(failure)
    IN  IF got.connection = "None"
        THEN [op |-> "execute_query", connection |-> "None", failure |-> "none",
              trace |-> got.trace, ret |-> "None", raised |-> "none"]
        ELSE [op |-> "execute_query", connection |-> got.connection,
              failure |-> failure,
              trace |-> got.trace \o <<"read_sql">> \o Finally(connected),
              ret |-> IF out = "DataFrame" THEN "DataFrame"
                      ELSE IF ExceptError(out) THEN "None" ELSE "none",
              raised |-> IF out = "DataFrame" \/ ExceptError(out) THEN "none" ELSE out]

\* execute_update and execute_stored_procedure: cursor, statement, commit;
\* except Error: rollback (which raises Error itself when it cannot reach the
\* server) and the failure value; finally the conditional close.
ExecuteStatement(op, ops, success, free, reconnects, failure, rollback_ok, connected) ==
    LET got == get_connection(free, reconnects)
    IN  IF got.connection = "None"
        THEN [op |-> op, connection |-> "None", failure |-> "none",
              trace |-> got.trace, ret |-> FailureValue(op), raised |-> "none"]
        ELSE [op |-> op, connection |-> got.connection, failure |-> failure,
              trace |-> got.trace \o Reached(ops, failure)
                        \o (IF failure = "none" THEN << >> ELSE <<"rollback">>)
                        \o Finally(connected),
              ret |-> IF failure = "none" THEN success
                      ELSE IF rollback_ok THEN FailureValue(op) ELSE "none",
              raised |-> IF failure # "none" /\ ~rollback_ok THEN "Error" ELSE "none"]

ExecuteUpdate(free, reconnects, failure, rollback_ok, connected) ==
    ExecuteStatement("execute_update", <<"cursor", "execute", "commit">>, "rowcount",
                     free, reconnects, failure, rollback_ok, connected)

ExecuteStoredProcedure(free, reconnects, failure, rollback_ok, connected) ==
    ExecuteStatement("execute_stored_procedure", <<"cursor", "callproc", "commit">>, "True",
                     free, reconnects, failure, rollback_ok, connected)

\* The connections queued after call c: one less when c took a connection
\* and did not close it.
PoolAfter(free, c) ==
    IF c.connection = "None" THEN free
    ELSE IF \E i \in 1..Len(c.trace) : c.trace[i] = "close" THEN free
    ELSE free - 1

execute_query ==
    \E reconnects \in BOOLEAN, failure \in QueryFailures, connected \in BOOLEAN :
        LET c == ExecuteQuery(pool_free, reconnects, failure, connected)
        IN  /\ connector.db_manager = "DatabaseManager"
            /\ call' = c
            /\ pool_free' = PoolAfter(pool_free, c)
            /\ UNCHANGED <<connector, rfmvars, dashvars, appvars, countvars>>

execute_update ==
    \E reconnects \in BOOLEAN, failure \in UpdateFailures,
       rollback_ok \in BOOLEAN, connected \in BOOLEAN :
        LET c == ExecuteUpdate(pool_free, reconnects, failure, rollback_ok, connected)
        IN  /\ connector.db_manager = "DatabaseManager"
            /\ call' = c
            /\ pool_free' = PoolAfter(pool_free, c)
            /\ UNCHANGED <<connector, rfmvars, dashvars, appvars, countvars>>

execute_stored_procedure ==
    \E reconnects \in BOOLEAN, failure \in ProcedureFailures,
       rollback_ok \in BOOLEAN, connected \in BOOLEAN :
        LET c == ExecuteStoredProcedure(pool_free, reconnects, failure, rollback_ok, connected)
        IN  /\ connector.db_manager = "DatabaseManager"
            /\ call' = c
            /\ pool_free' = PoolAfter(pool_free, c)
            /\ UNCHANGED <<connector, rfmvars, dashvars, appvars, countvars>>

InitDb ==
    /\ NoAnalysis
    /\ NoDatabase
    /\ NoDashboard
    /\ NoApp
    /\ NoCounts

NextDb ==
    \/ execute_query
    \/ execute_update
    \/ execute_stored_procedure

SpecDb == InitDb /\ [][NextDb]_vars

----------------------------------------------------------------------------
(* get_db_connector *)

\* get_db_connector has not been called.
NoConnector ==
    [db_manager |-> "none", connection_pool |-> "none", analytics |-> "none",
     imported |-> FALSE, creation |-> "none", logged |-> FALSE, raised |-> "none"]

\* How pooling.MySQLConnectionPool(...) ends: the pool, a mysql.connector.Error
\* (server unreachable, access denied), or an exception of another class.
PoolCreations == {"ok", "Error", "Exception"}

\* _initialize_pool that logs the Error and returns.
initialize_pool_swallow(creation) ==
    [connection_pool |-> IF creation = "ok" THEN "MySQLConnectionPool" ELSE "None",
     logged |-> creation = "Error",
     raised |-> IF creation = "Exception" THEN creation ELSE "none"]

\* _initialize_pool(): connection_pool is None until the pool is created; an
\* Error is logged and raised again, any other exception is not caught.
initialize_pool(creation) ==
    [connection_pool |-> IF creation = "ok" THEN "MySQLConnectionPool" ELSE "None",
     logged |-> creation = "Error",
     raised |-> IF creation = "ok" THEN "none" ELSE creation]

\* DatabaseManager(config): the object exists only if __init__ returns.
DatabaseManagerInit(creation) ==
    LET pool == initialize_pool(creation)
    IN  [db_manager |-> IF pool.raised = "none" THEN "DatabaseManager" ELSE "None",
         connection_pool |-> pool.connection_pool,
         logged |-> pool.logged,
         raised |-> pool.raised]

\* get_db_connector(): the manager and its AnalyticsQueries, or (None, None)
\* when the import or the construction raises any Exception.
GetDbConnector(imported, creation) ==
    LET made == DatabaseManagerInit(creation)
    IN  IF ~imported
        THEN [db_manager |-> "None", connection_pool |-> "None", analytics |-> "None",
              imported |-> FALSE, creation |-> "none", logged |-> FALSE,
              raised |-> "ImportError"]
        ELSE IF made.raised # "none"
        THEN [db_manager |-> "None", connection_pool |-> "None", analytics |-> "None",
              imported |-> TRUE, creation |-> creation, logged |-> made.logged,
              raised |-> made.raised]
        ELSE [db_manager |-> made.db_manager, connection_pool |-> made.connection_pool,
              analytics |-> "AnalyticsQueries", imported |-> TRUE, creation |-> creation,
              logged |-> made.logged, raised |-> "none"]

\* The first call of get_db_connector (st.cache_resource keeps its result).
get_db_connector ==
    /\ connector = NoConnector
    /\ \E imported \in BOOLEAN, creation \in PoolCreations :
          /\ connector' = GetDbConnector(imported, creation)
          /\ pool_free' = IF imported /\ creation = "ok" THEN PoolSize ELSE 0
    /\ UNCHANGED <<call, rfmvars, dashvars, appvars, countvars>>

InitConnector ==
    /\ NoAnalysis
    /\ NoDashboard
    /\ NoApp
    /\ NoCounts
    /\ pool_free = 0
    /\ call = NoCall
    /\ connector = NoConnector

NextConnector ==
    \/ get_db_connector
    \/ execute_query
    \/ execute_update
    \/ execute_stored_procedure

SpecConnector == InitConnector /\ [][NextConnector]_vars

----------------------------------------------------------------------------
(* The dashboard script *)

\* The analysis sections of the sidebar radio.
Tabs ==
    {"Dashboard Overview", "Revenue Analysis", "Seasonal Patterns",
     "Customer Segmentation (RFM)", "Payment Methods",
     "Revenue Analytics Bundle (Q6-Q10)", "Category Performance", "Prime Membership",
     "Geographic Analysis", "Festival Impact", "Price vs Demand", "Age Group Behavior",
     "Delivery Performance", "Returns Analysis", "Brand Analysis",
     "Customer Lifetime Value", "Discount Effectiveness", "Rating Impact",
     "Customer Journey", "Product Lifecycle", "Competitive Pricing", "Business Health",
     "Executive Summary"}

\* The analysis functions a section calls with the dataframe of session
\* state, in the order of the calls.
Analyses(tab) ==
    CASE tab = "Dashboard Overview" -> <<"business_health_dashboard">>
      [] tab = "Revenue Analysis" -> <<"revenue_trend_analysis">>
      [] tab = "Seasonal Patterns" -> <<"seasonal_patterns_analysis">>
      [] tab = "Customer Segmentation (RFM)" -> <<"rfm_segmentation_analysis">>
      [] tab = "Payment Methods" -> <<"payment_evolution_analysis">>
      [] tab = "Revenue Analytics Bundle (Q6-Q10)" ->
            <<"revenue_trend_analysis", "category_performance_analysis",
              "geographic_analysis", "festival_impact_analysis", "price_demand_analysis">>
      [] tab = "Category Performance" -> <<"category_performance_analysis">>
      [] tab = "Prime Membership" -> <<"prime_impact_analysis">>
      [] tab = "Geographic Analysis" -> <<"geographic_analysis">>
      [] tab = "Festival Impact" -> <<"festival_impact_analysis">>
      [] tab = "Price vs Demand" -> <<"price_demand_analysis">>
      [] tab = "Age Group Behavior" -> <<"age_group_analysis">>
      [] tab = "Delivery Performance" -> <<"delivery_performance_analysis">>
      [] tab = "Returns Analysis" -> <<"returns_analysis">>
      [] tab = "Brand Analysis" -> <<"brand_analysis">>
      [] tab = "Customer Lifetime Value" -> <<"clv_cohort_analysis">>
      [] tab = "Discount Effectiveness" -> <<"discount_effectiveness_analysis">>
      [] tab = "Rating Impact" -> <<"rating_impact_analysis">>
      [] tab = "Customer Journey" -> <<"customer_journey_analysis">>
      [] tab = "Product Lifecycle" -> <<"inventory_lifecycle_analysis">>
      [] tab = "Competitive Pricing" -> <<"competitive_pricing_analysis">>
      [] tab = "Business Health" -> <<"business_health_dashboard">>
      [] OTHER -> << >>

\* The columns an analysis function assigns on the dataframe it is given
\* (df[column] = ...); the other functions assign none.
AssignedColumns(analysis) ==
    CASE analysis = "seasonal_patterns_analysis" ->
            {"order_date", "month", "year", "month_name"}
      [] analysis = "payment_evolution_analysis" -> {"order_date", "year"}
      [] analysis = "clv_cohort_analysis" -> {"order_date", "cohort_year"}
      [] analysis = "price_demand_analysis" -> {"price_bin"}
      [] analysis \in {"rfm_segmentation_analysis", "revenue_trend_analysis",
                       "festival_impact_analysis", "business_health_dashboard",
                       "customer_journey_analysis", "inventory_lifecycle_analysis"} ->
            {"order_date"}
      [] OTHER -> {}

\* Columns of the transaction file that the analyses read, and the columns
\* that analyses derive; the file may or may not hold columns of these names.
FileColumns ==
    {"customer_id", "order_date", "final_amount_inr", "original_price_inr",
     "payment_method", "order_year"}
DerivedColumns == {"month", "year", "month_name", "price_bin", "cohort_year"}

\* The Parquet file: absent, readable, or present and unreadable.  The CSV
\* file: readable, or absent or malformed.
ParquetStates == {"missing", "ok", "corrupt"}
CsvStates == {"ok", "unreadable"}

\* load_data that returns None when the CSV file cannot be read.
load_data_none(parquet, csv) ==
    IF parquet = "ok" THEN "parquet"
    ELSE IF csv = "ok" THEN "csv"
    ELSE "None"

\* load_data(): the dataframe of the Parquet file if the file exists and
\* reads; else the one of the CSV file; else st.error and st.stop(), which
\* ends the run by StopException.
load_data(parquet, csv) ==
    IF parquet = "ok" THEN "parquet"
    ELSE IF csv = "ok" THEN "csv"
    ELSE "StopException"

\* The script loading on every run.
NeedsLoadAlways(state) == TRUE

\* if 'df' not in st.session_state
NeedsLoad(state) == state.df = NoDf

\* The columns of dataframe d after the analyses of `tab` ran on it.
ColumnsAfter(d, tab) ==
    d.columns \cup UNION {AssignedColumns(Analyses(tab)[i]) : i \in 1..Len(Analyses(tab))}

\* The rest of a run, with dataframe d in session state: the sidebar reads
\* df['order_date'].min().year, which raises AttributeError when the column
\* holds text; then the selected section's analyses run on d.
Rendered(d, tab, parquet, csv, loaded) ==
    IF d.order_date_dtype # "datetime64[ns]"
    THEN /\ session_state' = [df |-> d]
         /\ run' = [tab |-> tab, parquet |-> parquet, csv |-> csv, load_data |-> loaded,
                    outcome |-> "AttributeError", analyses |-> << >>, df_id |-> d.id]
    ELSE /\ session_state' = [df |-> [d EXCEPT !.columns = ColumnsAfter(d, tab)]]
         /\ run' = [tab |-> tab, parquet |-> parquet, csv |-> csv, load_data |-> loaded,
                    outcome |-> "rendered", analyses |-> Analyses(tab), df_id |-> d.id]

\* A run of the script in a session whose state has no dataframe: load_data
\* is called and the run stops there, or goes on with the loaded dataframe.
RunLoading ==
    /\ NeedsLoad(session_state)
    /\ load_calls < MaxLoadCalls
    /\ load_calls' = load_calls + 1
    /\ \E parquet \in ParquetStates, csv \in CsvStates :
          LET loaded == load_data(parquet, csv)
          IN  IF loaded = "StopException"
              THEN /\ run' = [tab |-> "none", parquet |-> parquet, csv |-> csv,
                              load_data |-> loaded, outcome |-> "stopped",
                              analyses |-> << >>, df_id |-> 0]
                   /\ UNCHANGED <<session_state, loaded_columns>>
              ELSE \E tab \in Tabs, extra \in SUBSET DerivedColumns, dt \in DateDtypes :
                      /\ loaded_columns' = FileColumns \cup extra
                      /\ Rendered([id |-> load_calls + 1, source |-> loaded,
                                   columns |-> FileColumns \cup extra,
                                   order_date_dtype |-> dt],
                                  tab, parquet, csv, loaded)
    /\ UNCHANGED <<rfmvars, dbvars, appvars, countvars>>

\* A run of the script in a session whose state holds a dataframe.
RunLoaded ==
    /\ ~NeedsLoad(session_state)
    /\ \E tab \in Tabs :
          Rendered(session_state.df, tab, "not read", "not read", "not called")
    /\ UNCHANGED <<loaded_columns, load_calls, rfmvars, dbvars, appvars, countvars>>

InitDash ==
    /\ NoAnalysis
    /\ NoDatabase
    /\ NoDashboard
    /\ NoApp
    /\ NoCounts

NextDash ==
    \/ RunLoading
    \/ RunLoaded

SpecDash == InitDash /\ [][NextDash]_vars

----------------------------------------------------------------------------
(* The application script: app_main.main and its pages *)

\* The labels of the sidebar radio, in the order of the list.
page_options == <<"Home", "Visualization", "Data Cleaning", "SQL Database",
                  "Dashboard">>

page_mapping == [landing |-> 0, visualization |-> 1, data_cleaning |-> 2,
                 sql_database |-> 3, dashboard |-> 4]

Pages == DOMAIN page_mapping

\* page_mapping.get(page, 0)
PageMappingGet(page) ==
    IF page \in DOMAIN page_mapping THEN page_mapping[page] ELSE 0

\* The navigation tiles of the landing page: the key of the button and the
\* page its handler assigns.
Tiles == [tile_viz |-> "visualization", tile_sql |-> "sql_database",
          tile_clean |-> "data_cleaning", tile_dash |-> "dashboard"]

\* The list of questions of the visualization page: code and function.
eda_questions ==
    << <<"Q1", "eda_q1">>, <<"Q2", "eda_q2">>, <<"Q3", "eda_q3">>,
       <<"Q4", "eda_q4">>, <<"Q5", "eda_q5">>, <<"Q6", "eda_q6">>,
       <<"Q7", "eda_q7">>, <<"Q8", "eda_q8">>, <<"Q9", "eda_q9">>,
       <<"Q10", "eda_q10">>, <<"Q11", "eda_q11">>, <<"Q12", "eda_q12">>,
       <<"Q13", "eda_q13">>, <<"Q14", "eda_q14">>, <<"Q15", "eda_q15">>,
       <<"Q16", "eda_q16">>, <<"Q17", "eda_q17">>, <<"Q18", "eda_q18">>,
       <<"Q19", "eda_q19">>, <<"Q20", "eda_q20">> >>

QuestionCodes == {eda_questions[i][1] : i \in DOMAIN eda_questions}

\* st.sidebar.radio without a key: the widget is identified by its
\* parameters, the index among them.  A radio the session holds a value for
\* returns that value; a new one returns the option at its index.
Radio(widgets, index) ==
    IF widgets[index] = "absent" THEN page_options[index + 1]
    ELSE widgets[index]

\* The widgets that a run did not render are kept (not what Streamlit does).
KeepStaleWidgets(widgets, index) == widgets

\* At the end of a run the session drops the widgets the run did not render.
RemoveStaleWidgets(widgets, index) ==
    [i \in DOMAIN widgets |-> IF i = index THEN widgets[i] ELSE "absent"]

\* The widget values after a run that rendered the radio of the index with
\* the value: a run ended by an uncaught exception drops nothing.
ScriptFinished(widgets, index, value, ended) ==
    IF ended = "exception" THEN [widgets EXCEPT ![index] = value]
    ELSE RemoveStaleWidgets([widgets EXCEPT ![index] = value], index)

\* The if/elif chain that writes the sidebar selection to current_page.
Sidebar(nav_option, current_page) ==
    CASE nav_option = "Home" -> "landing"
      [] nav_option = "Visualization" -> "visualization"
      [] nav_option = "Data Cleaning" -> "data_cleaning"
      [] nav_option = "SQL Database" -> "sql_database"
      [] nav_option = "Dashboard" -> "dashboard"
      [] OTHER -> current_page

\* A routing chain that has lost its last branch.
RouteWithoutDashboard(current_page) ==
    CASE current_page = "landing" -> <<"landing_page">>
      [] current_page = "visualization" -> <<"page_visualization">>
      [] current_page = "data_cleaning" -> <<"page_data_cleaning">>
      [] current_page = "sql_database" -> <<"page_sql_database">>
      [] OTHER -> << >>

\* The if/elif chain that routes to the page function: the functions called.
Route(current_page) ==
    CASE current_page = "landing" -> <<"landing_page">>
      [] current_page = "visualization" -> <<"page_visualization">>
      [] current_page = "data_cleaning" -> <<"page_data_cleaning">>
      [] current_page = "sql_database" -> <<"page_sql_database">>
      [] current_page = "dashboard" -> <<"page_dashboard">>
      [] OTHER -> << >>

\* landing_page: the tile clicked, if any, assigns its page and calls
\* st.rerun().
landing_page(current_page, tile) ==
    IF tile \in DOMAIN Tiles
    THEN [current_page |-> Tiles[tile], ended |-> "rerun"]
    ELSE [current_page |-> current_page, ended |-> "finished"]

\* The functions the loop over eda_questions calls for the selected code: it
\* stops at the first entry with the code.
SelectedAnalyses(selected_q) ==
    LET matches == {i \in DOMAIN eda_questions : eda_questions[i][1] = selected_q}
    IN  IF matches = {} THEN << >>
        ELSE <<eda_questions[CHOOSE i \in matches : \A j \in matches : i <= j][2]>>

\* A visualization page that keeps a selection for the run of its click only.
page_visualization_forgetful(selected, clicked, raises) ==
    LET now == IF clicked \in QuestionCodes THEN clicked ELSE "None"
        analyses == IF now # "None" THEN SelectedAnalyses(now) ELSE << >>
    IN  [selected_eda_question |-> now,
         analyses |-> analyses,
         error |-> raises /\ analyses # << >>,
         info |-> now = "None",
         ended |-> "finished"]

\* page_visualization: the key is initialised to None, the button clicked in
\* the run assigns its code, and the analysis of the selection is called in a
\* try block whose handler shows the error.
page_visualization(selected, clicked, raises) ==
    LET initialised == IF selected = "absent" THEN "None" ELSE selected
        now == IF clicked \in QuestionCodes THEN clicked ELSE initialised
        analyses == IF now # "None" THEN SelectedAnalyses(now) ELSE << >>
    IN  [selected_eda_question |-> now,
         analyses |-> analyses,
         error |-> raises /\ analyses # << >>,
         info |-> now = "None",
         ended |-> "finished"]

\* What a browser event carries into the run it triggers.
Load == [kind |-> "load", option |-> "none", tile |-> "none",
         question |-> "none", raises |-> FALSE, outcome |-> "finished"]

\* The ways the other page functions end: page_dashboard stops the script
\* when its data cannot be loaded, and a page may raise.
PageOutcomes(page) ==
    CASE page = <<"page_dashboard">> -> {"finished", "stopped", "exception"}
      [] page \in {<<"page_data_cleaning">>, <<"page_sql_database">>} ->
            {"finished", "exception"}
      [] OTHER -> {"finished"}

\* One run of main() on the session state and widget values, for the event.
main(state, widgets, event) ==
    LET first == state.current_page = "absent"
        before == IF first THEN "landing" ELSE state.current_page
        current_index == PageMappingGet(before)
        nav_option == Radio(widgets, current_index)
        current_page == Sidebar(nav_option, before)
        rendered == Route(current_page)
        landing == landing_page(current_page,
                       IF rendered = <<"landing_page">> THEN event.tile ELSE "none")
        visualization == page_visualization(state.selected_eda_question,
                                            event.question, event.raises)
        ended == CASE rendered = <<"landing_page">> -> landing.ended
                   [] rendered = <<"page_visualization">> -> visualization.ended
                   [] event.outcome \in PageOutcomes(rendered) -> event.outcome
                   [] OTHER -> "finished"
        shown == rendered = <<"page_visualization">>
    IN  [state |->
            [current_page |->
                IF rendered = <<"landing_page">> THEN landing.current_page
                ELSE current_page,
             selected_eda_question |->
                IF shown THEN visualization.selected_eda_question
                ELSE state.selected_eda_question],
         widgets |-> ScriptFinished(widgets, current_index, nav_option, ended),
         run |-> [event |-> event.kind, first |-> first,
                  current_index |-> current_index,
                  nav_option |-> nav_option,
                  current_page |-> current_page,
                  rendered |-> rendered,
                  tile |-> IF rendered = <<"landing_page">> THEN event.tile ELSE "none",
                  question |-> IF shown THEN event.question ELSE "none",
                  analyses |-> IF shown THEN visualization.analyses ELSE << >>,
                  error |-> shown /\ visualization.error,
                  info |-> shown /\ visualization.info,
                  ended |-> ended]]

\* The browser opens the application: the first run of the session.
Open ==
    /\ app_run = NoAppRun
    /\ \E m \in {main(app_state, widget_state, Load)} :
        /\ app_state' = m.state
        /\ widget_state' = m.widgets
        /\ app_run' = m.run
    /\ UNCHANGED <<rfmvars, dbvars, dashvars, countvars>>

\* The pages run so far leave the browser waiting for the user.
Waiting == app_run # NoAppRun /\ app_run.ended # "rerun"

\* The user selects another option of the sidebar radio on the screen.
SelectOption ==
    /\ Waiting
    /\ \E option \in {page_options[i] : i \in DOMAIN page_options},
          raises \in BOOLEAN, outcome \in {"finished", "stopped", "exception"} :
        /\ option # widget_state[app_run.current_index]
        /\ \E m \in {main(app_state,
                          [widget_state EXCEPT ![app_run.current_index] = option],
                          [Load EXCEPT !.kind = "radio", !.option = option,
                                       !.raises = raises, !.outcome = outcome])} :
            /\ outcome \in PageOutcomes(m.run.rendered)
            /\ raises => m.run.analyses # << >>
            /\ app_state' = m.state
            /\ widget_state' = m.widgets
            /\ app_run' = m.run
    /\ UNCHANGED <<rfmvars, dbvars, dashvars, countvars>>

\* The user clicks a navigation tile of the landing page on the screen.
ClickTile ==
    /\ Waiting
    /\ app_run.rendered = <<"landing_page">>
    /\ \E tile \in DOMAIN Tiles, raises \in BOOLEAN,
          outcome \in {"finished", "stopped", "exception"} :
        \E m \in {main(app_state, widget_state,
                       [Load EXCEPT !.kind = "tile", !.tile = tile,
                                    !.raises = raises, !.outcome = outcome])} :
            /\ outcome \in PageOutcomes(m.run.rendered)
            /\ raises => m.run.analyses # << >>
            /\ app_state' = m.state
            /\ widget_state' = m.widgets
            /\ app_run' = m.run
    /\ UNCHANGED <<rfmvars, dbvars, dashvars, countvars>>

\* The run that st.rerun() requested: it carries no event of the browser.
Rerun ==
    /\ app_run.ended = "rerun"
    /\ \E raises \in BOOLEAN, outcome \in {"finished", "stopped", "exception"} :
        \E m \in {main(app_state, widget_state,
                       [Load EXCEPT !.kind = "rerun", !.raises = raises,
                                    !.outcome = outcome])} :
            /\ outcome \in PageOutcomes(m.run.rendered)
            /\ raises => m.run.analyses # << >>
            /\ app_state' = m.state
            /\ widget_state' = m.widgets
            /\ app_run' = m.run
    /\ UNCHANGED <<rfmvars, dbvars, dashvars, countvars>>

\* The user clicks a question button of the visualization page on the screen.
ClickQuestion ==
    /\ Waiting
    /\ app_run.rendered = <<"page_visualization">>
    /\ \E question \in QuestionCodes, raises \in BOOLEAN,
          outcome \in {"finished", "stopped", "exception"} :
        \E m \in {main(app_state, widget_state,
                       [Load EXCEPT !.kind = "question", !.question = question,
                                    !.raises = raises, !.outcome = outcome])} :
            /\ outcome \in PageOutcomes(m.run.rendered)
            /\ raises => m.run.analyses # << >>
            /\ app_state' = m.state
            /\ widget_state' = m.widgets
            /\ app_run' = m.run
    /\ UNCHANGED <<rfmvars, dbvars, dashvars, countvars>>

\* The user changes a widget inside the page on the screen: the script runs
\* again with no navigation event.
Interact ==
    /\ Waiting
    /\ app_run.rendered # <<"landing_page">>
    /\ \E raises \in BOOLEAN, outcome \in {"finished", "stopped", "exception"} :
        \E m \in {main(app_state, widget_state,
                       [Load EXCEPT !.kind = "widget", !.raises = raises,
                                    !.outcome = outcome])} :
            /\ outcome \in PageOutcomes(m.run.rendered)
            /\ raises => m.run.analyses # << >>
            /\ app_state' = m.state
            /\ widget_state' = m.widgets
            /\ app_run' = m.run
    /\ UNCHANGED <<rfmvars, dbvars, dashvars, countvars>>

InitApp ==
    /\ NoAnalysis
    /\ NoDatabase
    /\ NoDashboard
    /\ NoApp
    /\ NoCounts

NextApp ==
    \/ Open
    \/ SelectOption
    \/ ClickTile
    \/ Rerun
    \/ ClickQuestion
    \/ Interact

SpecApp == InitApp /\ [][NextApp]_vars

----------------------------------------------------------------------------
(* The purchase-count classifications *)

\* A lifecycle classification whose second boundary is exclusive.
lifecycle_segment_exclusive(n) ==
    IF n = 1 THEN "One-time Buyer"
    ELSE IF n < 3 THEN "Occasional Buyer"
    ELSE IF n <= 10 THEN "Regular Buyer"
    ELSE "Loyal Customer"

\* lifecycle_segment of customer_journey_analysis
lifecycle_segment(n) ==
    IF n = 1 THEN "One-time Buyer"
    ELSE IF n <= 3 THEN "Occasional Buyer"
    ELSE IF n <= 10 THEN "Regular Buyer"
    ELSE "Loyal Customer"

lifecycle_order == <<"One-time Buyer", "Occasional Buyer", "Regular Buyer",
                     "Loyal Customer">>

\* Series.value_counts().reindex(order): the number of rows per label in the
\* given order, NaN for a label that no row carries.
ValueCountsReindexed(labels, order) ==
    [k \in DOMAIN order |->
        LET rows == {i \in DOMAIN labels : labels[i] = order[k]}
        IN  [label |-> order[k], nan |-> rows = {}, count |-> Cardinality(rows)]]

\* (mask).sum(): the number of True entries of a boolean series.
MaskSum(mask) == Cardinality({i \in DOMAIN mask : mask[i]})

\* customer_journey_analysis(df): total_purchases is the count of the
\* customer's rows with a category; every customer row gets its lifecycle
\* label and the labels are counted.
customer_journey_analysis ==
    /\ purchases # << >>
    /\ \E total_purchases \in {[c \in DOMAIN purchases |-> purchases[c].category]} :
        \E lifecycle \in {[c \in DOMAIN purchases |-> lifecycle_segment(total_purchases[c])]} :
            journey' = [called |-> TRUE,
                        total_purchases |-> total_purchases,
                        lifecycle |-> lifecycle,
                        lifecycle_counts |-> ValueCountsReindexed(lifecycle, lifecycle_order)]
    /\ UNCHANGED <<purchases, loyalty, rfmvars, dbvars, dashvars, appvars>>

\* The retention tab of show_customer_dashboard(df): customer_freq is the
\* number of rows of each customer; the loyalty table counts the customers
\* with one, with two to five and with more than five rows.
show_customer_dashboard ==
    /\ purchases # << >>
    /\ \E customer_freq \in {[c \in DOMAIN purchases |-> purchases[c].size]} :
        LET one_time == MaskSum([c \in DOMAIN customer_freq |-> customer_freq[c] = 1])
            repeat == MaskSum([c \in DOMAIN customer_freq |->
                                  customer_freq[c] >= 2 /\ customer_freq[c] <= 5])
            loyal == MaskSum([c \in DOMAIN customer_freq |-> customer_freq[c] > 5])
        IN  loyalty' = [shown |-> TRUE,
                        customers |-> Len(customer_freq),
                        Count |-> <<one_time, repeat, loyal>>]
    /\ UNCHANGED <<purchases, journey, rfmvars, dbvars, dashvars, appvars>>

\* A log of one to MaxBuyers customers, each with one to MaxPurchases rows of
\* which at most one has no category.
InitCounts ==
    /\ NoAnalysis
    /\ NoDatabase
    /\ NoDashboard
    /\ NoApp
    /\ \E n \in 1..MaxBuyers :
          \E size \in [1..n -> 1..MaxPurchases], missing \in [1..n -> 0..1] :
              purchases = [c \in 1..n |-> [size |-> size[c],
                                          category |-> size[c] - missing[c]]]
    /\ journey = NoJourney
    /\ loyalty = NoLoyalty

NextCounts ==
    \/ customer_journey_analysis
    \/ show_customer_dashboard

SpecCounts == InitCounts /\ [][NextCounts]_vars

----------------
(* Properties of the profile table *)

Returned == result = "returned"

Profiles == 1..Len(rfm)

Records == 1..Len(df.rows)

\* The records of the input log that carry customer id c.
RecordsOfCustomer(c) == {j \in Records : df.rows[j].customer_id = c}

RECURSIVE AmountOver(_)
\* The total amount of a set of input records.
AmountOver(J) ==
    IF J = {} THEN 0
    ELSE LET j == CHOOSE x \in J : TRUE
         IN  df.rows[j].final_amount_inr + AmountOver(J \ {j})

RECURSIVE MonetaryOver(_)
\* The total monetary value of a set of profiles.
MonetaryOver(P) ==
    IF P = {} THEN 0
    ELSE LET i == CHOOSE x \in P : TRUE
         IN  rfm[i].monetary + MonetaryOver(P \ {i})

\* The latest order date of the whole log.
LatestOrderDate == CHOOSE d \in {df.rows[j].order_date : j \in Records} :
                        \A j \in Records : df.rows[j].order_date <= d

\* The latest order date of customer c.
LastOrderOf(c) == CHOOSE d \in {df.rows[j].order_date : j \in RecordsOfCustomer(c)} :
                        \A j \in RecordsOfCustomer(c) : df.rows[j].order_date <= d

C2_SegmentByThresholds ==
    Returned =>
        \A i \in Profiles :
            LET score == rfm[i].rfm_score
                label == rfm[i].segment
            IN  /\ label \in {"Champions", "Loyal Customers", "Potential Loyalists",
                              "At Risk", "Lost"}
                /\ label = "Champions" <=> score >= 10
                /\ label = "Loyal Customers" <=> (score >= 8 /\ score < 10)
                /\ label = "Potential Loyalists" <=> (score >= 6 /\ score < 8)
                /\ label = "At Risk" <=> (score >= 4 /\ score < 6)
                /\ label = "Lost" <=> score < 4

\* One table holds a profile at a threshold (score 10) and one below every
\* threshold (score 3).
C2_Witness ==
    /\ Returned
    /\ \E i \in Profiles : rfm[i].rfm_score = 10 /\ rfm[i].segment = "Champions"
    /\ \E i \in Profiles : rfm[i].rfm_score = 3 /\ rfm[i].segment = "Lost"

\* C3: in every profile r_score, f_score and m_score are integers in 1..4 and
\* rfm_score is their sum, in 3..12.
C3_ScoresInRange ==
    Returned =>
        \A i \in Profiles :
            /\ rfm[i].r_score \in 1..4
            /\ rfm[i].f_score \in 1..4
            /\ rfm[i].m_score \in 1..4
            /\ rfm[i].rfm_score = rfm[i].r_score + rfm[i].f_score + rfm[i].m_score
            /\ rfm[i].rfm_score \in 3..12

\* One table holds the lowest and the highest combined score.
C3_Witness ==
    /\ Returned
    /\ \E i \in Profiles : rfm[i].rfm_score = 12
    /\ \E i \in Profiles : rfm[i].rfm_score = 3

\* C4: the reference date of a call is the latest order date of the whole log
\* plus one day, every profile's recency is counted from that one date to the
\* customer's latest order, and it is never negative.
C4_ReferenceDateFixed ==
    result # "none" =>
        /\ reference_date = LatestOrderDate + 1
        /\ \A i \in Profiles :
              /\ rfm[i].recency = reference_date - LastOrderOf(rfm[i].customer_id)
              /\ rfm[i].recency >= 0

\* A table is returned in which two customers have different recency.
C4_Witness ==
    /\ Returned
    /\ \E i, k \in Profiles : rfm[i].recency < rfm[k].recency

\* C5: every profile's frequency is the number of input records that carry
\* its customer identifier, and is at least 1.
C5_FrequencyCountsRecords ==
    Returned =>
        \A i \in Profiles :
            /\ rfm[i].frequency = Cardinality(RecordsOfCustomer(rfm[i].customer_id))
            /\ rfm[i].frequency >= 1

\* A table is returned with a customer of several records, two of them on
\* the same day, and a customer of one record.
C5_Witness ==
    /\ Returned
    /\ \E i \in Profiles : rfm[i].frequency = 1
    /\ \E i \in Profiles :
          /\ rfm[i].frequency >= 2
          /\ \E j, k \in RecordsOfCustomer(rfm[i].customer_id) :
                j # k /\ df.rows[j].order_date = df.rows[k].order_date

\* C6: every profile's monetary is the sum of the amounts of exactly its
\* customer's records, so the monetary values of all profiles add up to the
\* total amount of the log.
C6_MonetarySumsAmounts ==
    Returned =>
        /\ \A i \in Profiles :
              rfm[i].monetary = AmountOver(RecordsOfCustomer(rfm[i].customer_id))
        /\ MonetaryOver(Profiles) = AmountOver(Records)

\* A table is returned with a customer whose monetary adds up several records.
C6_Witness ==
    /\ Returned
    /\ \E i \in Profiles :
          /\ rfm[i].frequency >= 2
          /\ \A j \in Records : rfm[i].monetary > df.rows[j].final_amount_inr

\* C7: the recency score is the inverted quartile rank: no customer with a
\* smaller or equal recency has a lower r_score; the smallest recency gets
\* r_score 4 and the largest gets r_score 1.
C7_RecencyScoreInverted ==
    Returned =>
        /\ \A a, b \in Profiles :
              rfm[a].recency <= rfm[b].recency => rfm[a].r_score >= rfm[b].r_score
        /\ \A a \in Profiles :
              /\ (\A b \in Profiles : rfm[a].recency <= rfm[b].recency) => rfm[a].r_score = 4
              /\ (\A b \in Profiles : rfm[a].recency >= rfm[b].recency) => rfm[a].r_score = 1

\* A table of four customers is returned with three different recency scores.
C7_Witness ==
    /\ Returned
    /\ Len(rfm) = 4
    /\ Cardinality({rfm[i].r_score : i \in Profiles}) = 3

\* C8: the monetary score is the ascending quartile rank of the monetary
\* value: no customer with a smaller or equal monetary has a higher m_score
\* (equal monetary, equal m_score), and the largest monetary gets m_score 4.
C8_MonetaryScoreAscending ==
    Returned =>
        /\ \A a, b \in Profiles :
              rfm[a].monetary <= rfm[b].monetary => rfm[a].m_score <= rfm[b].m_score
        /\ \A a \in Profiles :
              (\A b \in Profiles : rfm[a].monetary >= rfm[b].monetary) => rfm[a].m_score = 4

\* A table of four customers is returned in which two customers have the
\* same monetary value and three m_score values occur.
C8_Witness ==
    /\ Returned
    /\ Len(rfm) = 4
    /\ \E a, b \in Profiles : a # b /\ rfm[a].monetary = rfm[b].monetary
    /\ Cardinality({rfm[i].m_score : i \in Profiles}) = 3

\* C9: the frequency score follows a ranking of frequency with ties broken by
\* the row order of the profile table: a smaller frequency never gets a
\* higher f_score, and among equal frequencies the earlier row never gets a
\* higher f_score than a later row.
C9_FrequencyScoreByRowOrder ==
    Returned =>
        \A a, b \in Profiles :
            /\ rfm[a].frequency < rfm[b].frequency => rfm[a].f_score <= rfm[b].f_score
            /\ (rfm[a].frequency = rfm[b].frequency /\ a < b) =>
                   rfm[a].f_score <= rfm[b].f_score

\* A table is returned in which two customers of equal frequency get
\* different f_score, and a customer of higher frequency is scored above a
\* later row.
C9_Witness ==
    /\ Returned
    /\ \E a, b \in Profiles :
          a < b /\ rfm[a].frequency = rfm[b].frequency /\ rfm[a].f_score < rfm[b].f_score
    /\ \E a, b \in Profiles :
          a < b /\ rfm[a].frequency > rfm[b].frequency /\ rfm[a].f_score > rfm[b].f_score

\* The customers of the log all have the same recency, or all the same
\* monetary total, or all purchased exactly once.
FewDistinctValues ==
    LET custs == {df.rows[j].customer_id : j \in Records}
    IN  \/ \A c, d \in custs : LastOrderOf(c) = LastOrderOf(d)
        \/ \A c, d \in custs : AmountOver(RecordsOfCustomer(c)) = AmountOver(RecordsOfCustomer(d))
        \/ \A c \in custs : Cardinality(RecordsOfCustomer(c)) = 1

\* C10: when a metric has too few distinct values for four quartile
\* boundaries, the call does not fail: it returns a table in which every
\* customer of the log has three scores and a segment label.
C10_DegradesGracefully ==
    (result # "none" /\ FewDistinctValues) =>
        /\ result = "returned"
        /\ {rfm[i].customer_id : i \in Profiles} = {df.rows[j].customer_id : j \in Records}

C14_InputUnchanged == [][result' = "returned" => df' = df]_vars

\* The log holds exactly four customers and their monetary totals are
\* pairwise distinct.
FourDistinctMonetary ==
    LET custs == {df.rows[j].customer_id : j \in Records}
    IN  /\ Cardinality(custs) = 4
        /\ \A c, d \in custs :
              c # d => AmountOver(RecordsOfCustomer(c)) # AmountOver(RecordsOfCustomer(d))

\* C12: for a population of exactly four customers with pairwise distinct
\* monetary values the call assigns four m_score values: they are exactly 1,
\* 2, 3 and 4, in increasing order of monetary value.
C12_FourDistinctScores ==
    (result # "none" /\ FourDistinctMonetary) =>
        /\ Returned
        /\ {rfm[i].m_score : i \in Profiles} = {1, 2, 3, 4}
        /\ \A a, b \in Profiles :
              rfm[a].monetary < rfm[b].monetary => rfm[a].m_score < rfm[b].m_score

\* C13: for the log of A (one purchase of 100), B (five purchases, 5000 in
\* all, the latest purchase of the log) and C (one purchase of 50, the oldest)
\* the call returns, B's r_score, f_score and m_score are each at least
\* those of A and of C, and C's r_score is below A's and B's.
C13_ScenarioRanking ==
    result # "none" =>
        /\ Returned
        /\ \E a, b, c \in Profiles :
              /\ rfm[a].frequency = 1 /\ rfm[a].monetary = 100
              /\ rfm[b].frequency = 5 /\ rfm[b].monetary = 5000
              /\ rfm[c].frequency = 1 /\ rfm[c].monetary = 50
              /\ \A x \in {a, c} :
                    /\ rfm[b].r_score >= rfm[x].r_score
                    /\ rfm[b].f_score >= rfm[x].f_score
                    /\ rfm[b].m_score >= rfm[x].m_score
              /\ rfm[c].r_score < rfm[a].r_score
              /\ rfm[c].r_score < rfm[b].r_score

\* The call has returned the three profiles; A's latest purchase is 9 days
\* before the reference date of the call, B's 1 day and C's 199 days, and A,
\* whose row comes after C's, is scored above C on frequency.
C13_Witness ==
    /\ Returned
    /\ Len(rfm) = 3
    /\ \E a, b, c \in Profiles :
          /\ rfm[a].monetary = 100 /\ rfm[a].recency = 9
          /\ rfm[b].monetary = 5000 /\ rfm[b].recency = 1
          /\ rfm[c].monetary = 50 /\ rfm[c].recency = 199
          /\ c < a
          /\ rfm[a].f_score > rfm[c].f_score

\* C28: recency is never below 1: every profile has recency >= 1, and every
\* customer whose latest order falls on the maximum order date of the log has
\* recency exactly 1.
C28_RecencyAtLeastOne ==
    Returned =>
        \A i \in Profiles :
            /\ rfm[i].recency >= 1
            /\ LastOrderOf(rfm[i].customer_id) = LatestOrderDate => rfm[i].recency = 1

\* A table is returned for a log in which one customer ordered on the latest
\* date, after an earlier order, and another customer did not.
C28_Witness ==
    /\ Returned
    /\ \E i, k \in Profiles :
          /\ rfm[i].recency = 1
          /\ rfm[i].frequency > 1
          /\ LastOrderOf(rfm[i].customer_id) = LatestOrderDate
          /\ \E j \in RecordsOfCustomer(rfm[i].customer_id) :
                df.rows[j].order_date < LatestOrderDate
          /\ rfm[k].recency > 1

\* The customers of the log.
Customers == {df.rows[j].customer_id : j \in Records}

\* The f_score binning of line 39 on the profile rows of the log.
FrequencyBinning == FScores(GroupByAgg(df.rows, ReferenceDate(df.rows)))

\* The rows that a score column gives the score.
ScoreGroup(scores, score) == {i \in 1..Len(scores) : scores[i] = score}

\* C27: for every population of at least 4 customers, whatever the purchase
\* counts are, the f_score binning succeeds, uses all four scores 1..4 and
\* splits the customers into four groups whose sizes differ by at most one;
\* a returned profile table carries these scores.
C27_FourEvenFrequencyGroups ==
    (result # "none" /\ Cardinality(Customers) >= 4) =>
        /\ ~FrequencyBinning.raised
        /\ \A s \in 1..4 : ScoreGroup(FrequencyBinning.values, s) # {}
        /\ \A s, t \in 1..4 :
              Cardinality(ScoreGroup(FrequencyBinning.values, s))
                <= Cardinality(ScoreGroup(FrequencyBinning.values, t)) + 1
        /\ Returned =>
              \A i \in Profiles : rfm[i].f_score = FrequencyBinning.values[i]

\* A table is returned for more than four customers who all purchased the
\* same number of times: all four scores are used, by groups of two sizes.
C27_Witness ==
    /\ Returned
    /\ Len(rfm) > 4
    /\ \A a, b \in Profiles : rfm[a].frequency = rfm[b].frequency
    /\ \A s \in 1..4 : \E a \in Profiles : rfm[a].f_score = s
    /\ \E s, t \in 1..4 :
          Cardinality({a \in Profiles : rfm[a].f_score = s})
            # Cardinality({a \in Profiles : rfm[a].f_score = t})

\* Two profiles with the same recency, frequency and monetary value.
SameValues(a, b) ==
    /\ rfm[a].recency = rfm[b].recency
    /\ rfm[a].frequency = rfm[b].frequency
    /\ rfm[a].monetary = rfm[b].monetary

\* C26 as stated: two customers with identical recency, frequency and
\* monetary value receive identical r_score, f_score and m_score and the same
\* segment label.
C26_IdenticalValuesIdenticalScores ==
    Returned =>
        \A a, b \in Profiles :
            SameValues(a, b) =>
                /\ rfm[a].r_score = rfm[b].r_score
                /\ rfm[a].f_score = rfm[b].f_score
                /\ rfm[a].m_score = rfm[b].m_score
                /\ rfm[a].segment = rfm[b].segment

\* C26 amended: identical recency gives identical r_score and identical
\* monetary value gives identical m_score; of two customers with identical
\* frequency the later row of the table gets an f_score that is equal or
\* higher, and the segment labels agree whenever the three scores add up to
\* the same sum.
C26_IdenticalValuesScores ==
    Returned =>
        \A a, b \in Profiles :
            /\ rfm[a].recency = rfm[b].recency => rfm[a].r_score = rfm[b].r_score
            /\ rfm[a].monetary = rfm[b].monetary => rfm[a].m_score = rfm[b].m_score
            /\ (SameValues(a, b) /\ a < b) => rfm[a].f_score <= rfm[b].f_score
            /\ rfm[a].r_score + rfm[a].f_score + rfm[a].m_score
                    = rfm[b].r_score + rfm[b].f_score + rfm[b].m_score
                  => rfm[a].segment = rfm[b].segment

\* A table is returned in which two customers with identical recency,
\* frequency and monetary value differ in f_score and in segment.
C26_Witness ==
    /\ Returned
    /\ \E a, b \in Profiles :
          /\ a < b
          /\ SameValues(a, b)
          /\ rfm[a].r_score = rfm[b].r_score
          /\ rfm[a].m_score = rfm[b].m_score
          /\ rfm[a].f_score < rfm[b].f_score
          /\ rfm[a].segment # rfm[b].segment

----------------------------------------------------------------------------
(* Properties of DatabaseManager calls *)

\* How often the driver operation o was called during the last call.
Attempts(o) == Cardinality({i \in 1..Len(call.trace) : call.trace[i] = o})

\* The last call took a connection from the pool.
TookConnection == call.op # "none" /\ call.connection # "None"

\* C16: when the pool supplies no connection, and when the driver raises
\* Error while the query runs, execute_query returns None and no exception
\* reaches the caller.
C16_FailureGivesNone ==
    (call.op = "execute_query" /\ (call.connection = "None" \/ call.failure # "none")) =>
        (call.ret = "None" /\ call.raised = "none")

C20_ConnectionsReturned ==
    /\ pool_free = PoolSize
    /\ TookConnection => Attempts("close") = 1

\* The last call committed: commit was called and did not raise.
Committed == Attempts("commit") = 1 /\ call.failure # "commit"

\* C21: execute_update returns the row count after exactly one commit when
\* the statement succeeds; when no connection is obtained, or the cursor, the
\* statement or the commit raises Error, it returns 0 without having
\* committed, after a rollback if it held a connection, and no exception
\* reaches the caller.  execute_stored_procedure likewise, with True and
\* False.
C21_UpdateFailureContained ==
    call.op \in {"execute_update", "execute_stored_procedure"} =>
        /\ (call.connection # "None" /\ call.failure = "none") =>
              /\ call.ret = (IF call.op = "execute_update" THEN "rowcount" ELSE "True")
              /\ Committed
              /\ call.raised = "none"
        /\ (call.connection = "None" \/ call.failure # "none") =>
              /\ call.ret = FailureValue(call.op)
              /\ call.raised = "none"
              /\ ~Committed
              /\ call.connection # "None" => Attempts("rollback") = 1

\* C22: the constructor raises what the creation of the pool raised, having
\* logged it when it is an Error; callers are handed a DatabaseManager only
\* with its pool, and calls are only made on such a manager; when the import
\* or the construction fails get_db_connector returns (None, None).
C22_NoManagerWithoutPool ==
    connector # NoConnector =>
        /\ (connector.imported /\ connector.creation # "ok") =>
              /\ connector.raised = connector.creation
              /\ connector.creation = "Error" => connector.logged
        /\ connector.db_manager \in {"None", "DatabaseManager"}
        /\ connector.db_manager = "DatabaseManager" =>
              /\ connector.connection_pool = "MySQLConnectionPool"
              /\ connector.analytics = "AnalyticsQueries"
        /\ (~connector.imported \/ connector.creation # "ok") =>
              /\ connector.db_manager = "None"
              /\ connector.analytics = "None"
              /\ call = NoCall

\* get_db_connector has returned (None, None) after the creation of the pool
\* raised an Error, which was logged.
C22_Witness ==
    /\ connector.imported
    /\ connector.creation = "Error"
    /\ connector.logged
    /\ connector.raised = "Error"
    /\ connector.db_manager = "None"
    /\ connector.analytics = "None"

----------------------------------------------------------------------------
(* Properties of the dashboard session *)

\* Session state holds a dataframe.
HasDf == session_state.df # NoDf

\* C15: the dataframe kept in session state has the columns it had when it
\* was loaded, whatever sections were rendered since.
C15_SessionDataframeUnchanged ==
    HasDf => session_state.df.columns = loaded_columns

\* C17: in a run that calls load_data, the dataframe comes from the Parquet
\* file when that file exists and reads, else from the CSV file when that
\* reads; when neither reads the run is stopped, no analysis runs in it and
\* session state keeps no dataframe.  load_data never returns without a
\* dataframe, and analyses only run in a session that holds one.
C17_FatalStartupError ==
    /\ run.load_data \in {"none", "not called", "parquet", "csv", "StopException"}
    /\ run.load_data \in {"parquet", "csv", "StopException"} =>
          /\ run.parquet = "ok" => run.load_data = "parquet"
          /\ (run.parquet # "ok" /\ run.csv = "ok") => run.load_data = "csv"
          /\ (run.parquet # "ok" /\ run.csv # "ok") => run.load_data = "StopException"
    /\ run.load_data \in {"parquet", "csv"} =>
          /\ HasDf
          /\ session_state.df.source = run.load_data
    /\ run.load_data = "StopException" =>
          /\ run.outcome = "stopped"
          /\ run.analyses = << >>
          /\ ~HasDf
    /\ run.analyses # << >> => (HasDf /\ session_state.df.source \in {"parquet", "csv"})

\* After a load that failed on a corrupt Parquet file and an unreadable CSV
\* file the run was stopped; the session holds no dataframe.
C17_Witness ==
    /\ run.parquet = "corrupt"
    /\ run.csv = "unreadable"
    /\ run.load_data = "StopException"
    /\ run.outcome = "stopped"
    /\ load_calls >= 2
    /\ ~HasDf

\* C19: once session state holds a dataframe, a run of the script does not
\* call load_data, leaves that dataframe in session state and renders its
\* section on it.
C19_LoadedOnce ==
    [][HasDf => /\ load_calls' = load_calls
                /\ run'.load_data = "not called"
                /\ session_state'.df.id = session_state.df.id
                /\ run'.df_id = session_state.df.id]_vars

\* A section with analyses was rendered, without a call of load_data, on the
\* dataframe that the second call of load_data in the session returned.
C19_Witness ==
    /\ HasDf
    /\ load_calls = 2
    /\ run.load_data = "not called"
    /\ run.outcome = "rendered"
    /\ run.analyses # << >>
    /\ run.df_id = 2
    /\ session_state.df.id = 2

----------------------------------------------------------------------------
(* Properties of the application script *)

\* A run of main() was made.
AppRan == app_run # NoAppRun

\* The page function that corresponds to a value of current_page.
PageFunction == [landing |-> "landing_page",
                 visualization |-> "page_visualization",
                 data_cleaning |-> "page_data_cleaning",
                 sql_database |-> "page_sql_database",
                 dashboard |-> "page_dashboard"]

\* C23: in every run of main() current_page is one of the five page names,
\* before and after the page function ran; it is 'landing' on the first run
\* of a session; and exactly one page function is rendered, the one of the
\* value current_page has after the sidebar selection was applied.
C23_OnePageRendered ==
    AppRan =>
        /\ app_run.current_page \in Pages
        /\ app_state.current_page \in Pages
        /\ app_run.first => app_run.current_page = "landing"
        /\ app_run.rendered = <<PageFunction[app_run.current_page]>>

\* A run in which the sidebar selection moved the session to the dashboard.
C23_Witness ==
    /\ app_run.event = "radio"
    /\ app_run.current_index # page_mapping["dashboard"]
    /\ app_run.rendered = <<"page_dashboard">>

\* C24: the run of a tile click on the landing page sets current_page to the
\* tile's page and ends in a rerun, and the rerun renders the tile's page with
\* current_page still that page: the sidebar radio does not write the page
\* selected before the click back.
C24_TileNavigates ==
    [][/\ app_run'.tile \in DOMAIN Tiles =>
            /\ app_run'.rendered = <<"landing_page">>
            /\ app_state'.current_page = Tiles[app_run'.tile]
            /\ app_run'.ended = "rerun"
       /\ app_run.tile \in DOMAIN Tiles =>
            /\ app_run'.event = "rerun"
            /\ app_run'.current_page = Tiles[app_run.tile]
            /\ app_run'.rendered = <<PageFunction[Tiles[app_run.tile]]>>
            /\ app_state'.current_page = Tiles[app_run.tile]]_vars

\* The rerun of a tile click renders the visualization page in a session that
\* had left that page for the landing page through the sidebar radio.
C24_Witness ==
    /\ app_run.event = "rerun"
    /\ app_run.rendered = <<"page_visualization">>
    /\ app_run.nav_option = "Visualization"
    /\ app_state.selected_eda_question \in QuestionCodes

\* The analysis function of a question code.
AnalysisOf(q_code) ==
    eda_questions[CHOOSE i \in DOMAIN eda_questions : eda_questions[i][1] = q_code][2]

\* The visualization page was rendered in the last run.
VisualizationShown == app_run.rendered = <<"page_visualization">>

\* C25: on the visualization page no analysis is rendered while no question
\* was selected; the run of a click on Qk and every later run of the page
\* until another click render exactly the analysis function of Qk; the
\* selection never returns to None; and an exception of the analysis function
\* is shown as an error in a run that finishes.
C25_SelectedAnalysisRendered ==
    /\ [](VisualizationShown =>
            /\ app_state.selected_eda_question \in QuestionCodes \cup {"None"}
            /\ app_state.selected_eda_question = "None" =>
                    app_run.analyses = << >> /\ app_run.info
            /\ app_state.selected_eda_question \in QuestionCodes =>
                    /\ app_run.analyses = <<AnalysisOf(app_state.selected_eda_question)>>
                    /\ ~app_run.info
            /\ app_run.question \in QuestionCodes =>
                    app_state.selected_eda_question = app_run.question
            /\ app_run.error => app_run.ended = "finished" /\ app_run.analyses # << >>)
    /\ [][/\ app_state.selected_eda_question = "absent" /\ VisualizationShown'
                /\ app_run'.question = "none" =>
                    app_state'.selected_eda_question = "None"
          /\ app_state.selected_eda_question \in QuestionCodes =>
                \/ app_state'.selected_eda_question = app_state.selected_eda_question
                \/ /\ app_run'.question \in QuestionCodes
                   /\ app_state'.selected_eda_question = app_run'.question]_vars

\* A later run of the page, not the run of a click, renders the analysis of
\* the selected question, which raises.
C25_Witness ==
    /\ VisualizationShown
    /\ app_run.event = "widget"
    /\ app_run.question = "none"
    /\ app_run.analyses = <<"eda_q7">>
    /\ app_run.error

----------------------------------------------------------------------------
(* Properties of the purchase-count classifications *)

Buyers == DOMAIN purchases

\* The label the lifecycle table gives for a purchase count of 1 or more.
LifecycleTable(n) ==
    CASE n = 1 -> "One-time Buyer"
      [] n \in 2..3 -> "Occasional Buyer"
      [] n \in 4..10 -> "Regular Buyer"
      [] n > 10 -> "Loyal Customer"

RECURSIVE SumCounts(_)
\* The sum of a column of counts, NaN entries skipped.
SumCounts(counts) ==
    IF counts = << >> THEN 0
    ELSE (IF Head(counts).nan THEN 0 ELSE Head(counts).count) + SumCounts(Tail(counts))

\* C29: the purchase-count classifications are partitions of the customers:
\* lifecycle_segment gives every count of 1 or more the one label of its range
\* (1, 2..3, 4..10, above 10), the loyalty table counts every customer in
\* exactly one of its rows (1, 2..5, above 5), and in both the segment counts
\* add up to the number of distinct customers.
C29_CountsPartitionCustomers ==
    /\ journey.called =>
        /\ \A c \in Buyers :
              /\ journey.lifecycle[c] \in Range(lifecycle_order)
              /\ journey.total_purchases[c] >= 1 =>
                    journey.lifecycle[c] = LifecycleTable(journey.total_purchases[c])
        /\ \A k \in DOMAIN lifecycle_order :
              ~journey.lifecycle_counts[k].nan =>
                  journey.lifecycle_counts[k].count =
                      Cardinality({c \in Buyers : journey.lifecycle[c] = lifecycle_order[k]})
        /\ SumCounts(journey.lifecycle_counts) = Cardinality(Buyers)
    /\ loyalty.shown =>
        /\ loyalty.Count[1] = Cardinality({c \in Buyers : purchases[c].size = 1})
        /\ loyalty.Count[2] = Cardinality({c \in Buyers : purchases[c].size \in 2..5})
        /\ loyalty.Count[3] = Cardinality({c \in Buyers : purchases[c].size > 5})
        /\ loyalty.Count[1] + loyalty.Count[2] + loyalty.Count[3] = Cardinality(Buyers)

\* Both classifications were computed for three customers with 3, 10 and 11
\* purchases: three lifecycle segments and two loyalty rows are filled.
C29_Witness ==
    /\ journey.called
    /\ loyalty.shown
    /\ Len(purchases) = 3
    /\ journey.total_purchases = <<3, 10, 11>>
    /\ journey.lifecycle = <<"Occasional Buyer", "Regular Buyer", "Loyal Customer">>
    /\ journey.lifecycle_counts[1].nan
    /\ loyalty.Count = <<0, 1, 2>>

====
